---------------------------- MODULE Spec2Model ----------------------------
(***************************************************************************)
(* Model of PixivHelper.py: path sanitising (sanitize_filename), the       *)
(* size-based integrity gate (check_file_exists), the staged download      *)
(* (download_image) and the ugoira converters (ugoira2gif, ugoira2apng,    *)
(* ugoira2webm).                                                           *)
(*                                                                         *)
(* A Python str is a sequence of one-character strings.  A file system is  *)
(* a function from the paths that exist to their content.                  *)
(***************************************************************************)
EXTENDS Integers, Sequences, FiniteSets, TLC

(***************************************************************************)
(* str helpers                                                             *)
(***************************************************************************)

\* s[i:j] of Python with 0 <= i, j (half-open, 0-based), clipped to the string.
Slice(s, i, j) ==
  LET hi == IF j > Len(s) THEN Len(s) ELSE j
  IN  IF i >= hi THEN <<>> ELSE SubSeq(s, i + 1, hi)

\* The smallest and the largest element of a non-empty set of integers.
Min(S) == CHOOSE x \in S : \A y \in S : x <= y

Max(S) == CHOOSE x \in S : \A y \in S : y <= x

\* The 1-based positions of s that hold a character of the set cs.
Positions(s, cs) == {i \in 1..Len(s) : s[i] \in cs}

\* The 0-based index of the last c in s, or -1 (str.rfind).
RFind(s, c) ==
  LET P == Positions(s, {c}) IN IF P = {} THEN -1 ELSE Max(P) - 1

\* The 0-based index of the last character of s that is in the set cs, or -1.
RFindAny(s, cs) ==
  LET P == Positions(s, cs) IN IF P = {} THEN -1 ELSE Max(P) - 1

\* The 0-based index of the first c in s at or after the 1-based i, or -1
\* (str.find(c, i - 1)).
FindFrom(s, c, i) ==
  LET P == {k \in Positions(s, {c}) : k >= i} IN IF P = {} THEN -1 ELSE Min(P) - 1

Find(s, c) == FindFrom(s, c, 1)

\* str.split(sep) for a one-character sep: always at least one item.  The
\* k-th item lies between the (k-1)-th and the k-th separator.
Split(s, sep) ==
  LET P == Positions(s, {sep})
      n == Cardinality(P)
      at(k) == IF k = 0 THEN 0
               ELSE IF k = n + 1 THEN Len(s) + 1
               ELSE CHOOSE p \in P : Cardinality({q \in P : q < p}) = k - 1
  IN  [k \in 1..(n + 1) |-> SubSeq(s, at(k - 1) + 1, at(k) - 1)]

\* sep.join(items) for a one-character sep.
RECURSIVE JoinSeq(_, _)
JoinSeq(items, sep) ==
  IF Len(items) = 0 THEN <<>>
  ELSE IF Len(items) = 1 THEN items[1]
  ELSE items[1] \o <<sep>> \o JoinSeq(Tail(items), sep)

\* str.rsplit(sep, 1): split once, at the last sep.
RSplit1(s, sep) ==
  LET k == RFind(s, sep)
  IN  IF k < 0 THEN <<s>>
      ELSE <<Slice(s, 0, k), Slice(s, k + 1, Len(s))>>

\* str.strip(chars): drop leading and trailing characters that are in cs.
LStrip(s, cs) ==
  LET K == {i \in 1..Len(s) : s[i] \notin cs}
  IN  IF K = {} THEN <<>> ELSE SubSeq(s, Min(K), Len(s))

RStrip(s, cs) ==
  LET K == {i \in 1..Len(s) : s[i] \notin cs}
  IN  IF K = {} THEN <<>> ELSE SubSeq(s, 1, Max(K))

Strip(s, cs) == RStrip(LStrip(s, cs), cs)

\* s.startswith(p)
StartsWith(s, p) == Len(s) >= Len(p) /\ SubSeq(s, 1, Len(p)) = p

\* n copies of the character c.
Repeat(c, n) == [i \in 1..n |-> c]

\* str(n) for a natural number n: its decimal digits.
Digit(d) == CASE d = 0 -> "0" [] d = 1 -> "1" [] d = 2 -> "2" [] d = 3 -> "3"
              [] d = 4 -> "4" [] d = 5 -> "5" [] d = 6 -> "6" [] d = 7 -> "7"
              [] d = 8 -> "8" [] d = 9 -> "9"

RECURSIVE StrOfNat(_)
StrOfNat(n) ==
  IF n < 10 THEN <<Digit(n)>> ELSE Append(StrOfNat(n \div 10), Digit(n % 10))

(***************************************************************************)
(* Platform and path helpers (os.sep, os.path, pathlib)                    *)
(***************************************************************************)

Platforms == {"Linux", "Windows"}

\* Python's None, where a str is also allowed.
NoneValue == <<"None">>

\* os.sep
Sep(plat) == IF plat = "Windows" THEN "\\" ELSE "/"

\* The characters os.path takes as separators (os.sep and os.altsep).
Seps(plat) == IF plat = "Windows" THEN {"\\", "/"} ELSE {"/"}

\* os.getcwd(): an absolute directory of the host.
Cwd(plat) == IF plat = "Windows" THEN <<"C", ":", "\\", "w">> ELSE <<"/", "w">>

\* s with every character in cs replaced by c (str.replace for one character).
ReplaceChars(s, cs, c) == [i \in 1..Len(s) |-> IF s[i] \in cs THEN c ELSE s[i]]

\* The component stack of normpath for a rooted path: '' and '.' are
\* dropped, '..' pops a component and is dropped at the root.
RECURSIVE NormComps(_, _)
NormComps(comps, acc) ==
  IF Len(comps) = 0 THEN acc
  ELSE LET c == Head(comps)
       IN  IF c = <<>> \/ c = <<".">> THEN NormComps(Tail(comps), acc)
           ELSE IF c = <<".", ".">>
                THEN NormComps(Tail(comps),
                               IF Len(acc) > 0 THEN SubSeq(acc, 1, Len(acc) - 1)
                               ELSE acc)
                ELSE NormComps(Tail(comps), Append(acc, c))

\* posixpath.join(a, b)
PosixJoin(a, b) ==
  IF Len(b) > 0 /\ b[1] = "/" THEN b
  ELSE IF Len(a) = 0 \/ a[Len(a)] = "/" THEN a \o b
  ELSE a \o <<"/">> \o b

\* posixpath.normpath of an absolute path: exactly two leading slashes are kept.
PosixNormpath(p) ==
  LET slashes == IF StartsWith(p, <<"/", "/">>) /\ ~StartsWith(p, <<"/", "/", "/">>)
                 THEN <<"/", "/">> ELSE <<"/">>
  IN  slashes \o JoinSeq(NormComps(Split(p, "/"), <<>>), "/")

\* posixpath.abspath(p)
PosixAbspath(p) ==
  PosixNormpath(IF Len(p) > 0 /\ p[1] = "/" THEN p ELSE PosixJoin(Cwd("Linux"), p))

\* ntpath.splitdrive for a path that is not a UNC path: a drive is 'X:'.
NtDrive(p) == IF Len(p) >= 2 /\ p[2] = ":" THEN SubSeq(p, 1, 2) ELSE <<>>

NtRest(p) == Slice(p, Len(NtDrive(p)), Len(p))

\* ntpath.join(a, b), a with a drive, b not a UNC path.
NtJoin(a, b) ==
  LET rd == NtDrive(a)
      rp == NtRest(a)
      pd == NtDrive(b)
      pp == NtRest(b)
  IN  IF Len(pp) > 0 /\ pp[1] \in Seps("Windows")
      THEN (IF Len(pd) > 0 \/ Len(rd) = 0 THEN pd ELSE rd) \o pp
      ELSE IF Len(pd) > 0 /\ pd # rd THEN pd \o pp
      ELSE rd \o (IF Len(rp) > 0 /\ rp[Len(rp)] \notin Seps("Windows")
                  THEN rp \o <<"\\">> ELSE rp) \o pp

\* ntpath.normpath of a path with a drive and a root.
NtNormpath(p) ==
  LET q == ReplaceChars(p, {"/"}, "\\")
  IN  NtDrive(q) \o <<"\\">> \o JoinSeq(NormComps(Split(NtRest(q), "\\"), <<>>), "\\")

\* ntpath.abspath(p): the path resolved against the current directory.
NtAbspath(p) == NtNormpath(NtJoin(Cwd("Windows"), p))

\* os.path.join and os.path.abspath of the platform.
PathJoin(plat, a, b) == IF plat = "Windows" THEN NtJoin(a, b) ELSE PosixJoin(a, b)

Abspath(plat, p) == IF plat = "Windows" THEN NtAbspath(p) ELSE PosixAbspath(p)

\* os.path.splitext(p): <<root, ext>>; the extension starts at the last '.'
\* after the last separator, unless only '.' precede it in that segment.
OnlyDots(p, i, j) ==  \* p[i..j-1] (0-based) are all '.'
  \A k \in (i + 1)..j : p[k] = "."

Splitext(plat, p) ==
  LET sepIndex == RFindAny(p, Seps(plat))
      dotIndex == RFind(p, ".")
  IN  IF dotIndex > sepIndex /\ ~OnlyDots(p, sepIndex + 1, dotIndex)
      THEN <<Slice(p, 0, dotIndex), Slice(p, dotIndex, Len(p))>>
      ELSE <<p, <<>>>>

\* s[:k] of Python, k possibly negative (then counted from the end).
SliceTo(s, k) ==
  IF k >= 0 THEN Slice(s, 0, k)
  ELSE IF Len(s) + k > 0 THEN Slice(s, 0, Len(s) + k) ELSE <<>>

(***************************************************************************)
(* sanitize_filename                                                       *)
(***************************************************************************)

\* The named character references html.unescape knows, restricted to the
\* four of XML that have them with and without the ';' (the names of the
\* model's inputs are built from no other reference).
Html5 ==
  (<<"a", "m", "p", ";">> :> "&") @@ (<<"a", "m", "p">> :> "&") @@
  (<<"l", "t", ";">> :> "<") @@ (<<"l", "t">> :> "<") @@
  (<<"g", "t", ";">> :> ">") @@ (<<"g", "t">> :> ">") @@
  (<<"q", "u", "o", "t", ";">> :> "\"") @@ (<<"q", "u", "o", "t">> :> "\"")

\* The characters that end a reference name: [^\t\n\f <&#;].
RefStop == {"\t", "\n", "\f", " ", "<", "&", "#", ";"}

\* The number of reference-name characters of s from the 1-based index i, at most 32.
RECURSIVE RefRun(_, _, _)
RefRun(s, i, n) ==
  IF i > Len(s) \/ n = 32 \/ s[i] \in RefStop THEN n
  ELSE RefRun(s, i + 1, n + 1)

\* html._replace_charref, the longest known prefix of x characters or fewer.
RECURSIVE ReplacePrefix(_, _)
ReplacePrefix(g, x) ==
  IF x < 2 THEN <<"&">> \o g
  ELSE IF SubSeq(g, 1, x) \in DOMAIN Html5
       THEN <<Html5[SubSeq(g, 1, x)]>> \o SubSeq(g, x + 1, Len(g))
       ELSE ReplacePrefix(g, x - 1)

ReplaceCharref(g) ==
  IF g \in DOMAIN Html5 THEN <<Html5[g]>> ELSE ReplacePrefix(g, Len(g) - 1)

\* html.unescape(s): one left-to-right pass, the replacements are not rescanned.
\* From the 1-based index i: the text up to the next '&' is copied.
RECURSIVE UnescapeFrom(_, _)
UnescapeFrom(s, i) ==
  LET k == FindFrom(s, "&", i) + 1
  IN  IF k = 0 THEN SubSeq(s, i, Len(s))
      ELSE LET n == RefRun(s, k + 1, 0)
               semi == IF k + n + 1 <= Len(s) /\ s[k + n + 1] = ";" THEN 1 ELSE 0
           IN  SubSeq(s, i, k - 1) \o
               (IF n = 0 THEN <<"&">> \o UnescapeFrom(s, k + 1)
                ELSE ReplaceCharref(SubSeq(s, k + 1, k + n + semi))
                       \o UnescapeFrom(s, k + n + semi + 1))

Unescape(s) == UnescapeFrom(s, 1)

\* __badchars__.sub("_", name): each of ? : < > | * " becomes '_'; '^$'
\* matches the empty string, and the start of a string that is one newline.
BadChars == {"?", ":", "<", ">", "|", "*", "\""}

BadCharsSub(name) ==
  IF name = <<>> THEN <<"_">>
  ELSE IF name = <<"\n">> THEN <<"_", "\n">>
  ELSE ReplaceChars(name, BadChars, "_")

\* unicodedata.category(c) == "Cc", for the control characters of the model.
ControlChars == {"\t", "\n", "\r", "\f"}

RemoveControl(name) == SelectSeq(name, LAMBDA c : c \notin ControlChars)

\* str.upper() for one character.
UpperMap ==
  ("a" :> "A") @@ ("b" :> "B") @@ ("c" :> "C") @@ ("d" :> "D") @@ ("e" :> "E") @@ ("f" :> "F") @@
  ("g" :> "G") @@ ("h" :> "H") @@ ("i" :> "I") @@ ("j" :> "J") @@ ("k" :> "K") @@ ("l" :> "L") @@
  ("m" :> "M") @@ ("n" :> "N") @@ ("o" :> "O") @@ ("p" :> "P") @@ ("q" :> "Q") @@ ("r" :> "R") @@
  ("s" :> "S") @@ ("t" :> "T") @@ ("u" :> "U") @@ ("v" :> "V") @@ ("w" :> "W") @@ ("x" :> "X") @@
  ("y" :> "Y") @@ ("z" :> "Z")

Upper(c) == IF c \in DOMAIN UpperMap THEN UpperMap[c] ELSE c

UpperStr(s) == [i \in 1..Len(s) |-> Upper(s[i])]

\* pathlib's reserved device names of Windows.
ReservedNames ==
  {
    <<"C", "O", "N">>, <<"P", "R", "N">>, <<"A", "U", "X">>,
    <<"N", "U", "L">>, <<"C", "O", "M", "1">>, <<"C", "O", "M", "2">>,
    <<"C", "O", "M", "3">>, <<"C", "O", "M", "4">>, <<"C", "O", "M", "5">>,
    <<"C", "O", "M", "6">>, <<"C", "O", "M", "7">>, <<"C", "O", "M", "8">>,
    <<"C", "O", "M", "9">>, <<"L", "P", "T", "1">>, <<"L", "P", "T", "2">>,
    <<"L", "P", "T", "3">>, <<"L", "P", "T", "4">>, <<"L", "P", "T", "5">>,
    <<"L", "P", "T", "6">>, <<"L", "P", "T", "7">>, <<"L", "P", "T", "8">>,
    <<"L", "P", "T", "9">>
  }

\* str.partition(c)[0]: the text before the first c.
Before(s, c) == LET k == Find(s, c) IN IF k < 0 THEN s ELSE Slice(s, 0, k)

\* pathlib takes an item that starts with exactly two separators, then a
\* server and a share, as a UNC path.
IsUNC(item) ==
  LET q == ReplaceChars(item, {"/"}, "\\")
      index == FindFrom(q, "\\", 3)
      index2 == FindFrom(q, "\\", index + 2)
  IN  /\ StartsWith(q, <<"\\", "\\">>)
      /\ ~StartsWith(q, <<"\\", "\\", "\\">>)
      /\ index # -1
      /\ index2 # index + 1

\* The last part pathlib keeps of an item: its last component that is
\* neither empty nor '.'.
LastPart(item) ==
  LET comps == SelectSeq(Split(ReplaceChars(item, {"/"}, "\\"), "\\"),
                         LAMBDA c : c # <<>> /\ c # <<".">>)
  IN  IF Len(comps) = 0 THEN <<>> ELSE comps[Len(comps)]

\* Path(item).is_reserved(): never on a POSIX host; on Windows the last
\* part up to its first '.' or ':', without trailing spaces, upper-cased.
IsReserved(plat, item) ==
  /\ plat = "Windows"
  /\ ~IsUNC(item)
  /\ LastPart(item) # <<>>
  /\ UpperStr(RStrip(Before(Before(LastPart(item), "."), ":"), {" "}))
       \in ReservedNames

\* The characters stripped from both ends of every segment.
StripChars == {" ", ".", "\t", "\r", "\n"}

\* One segment of the loop over name.split(os.sep).
StripItem(plat, item) ==
  Strip(IF IsReserved(plat, item) THEN <<"_">> \o item ELSE item, StripChars)

StripSegments(plat, name) ==
  LET items == Split(name, Sep(plat))
  IN  JoinSeq([i \in 1..Len(items) |-> StripItem(plat, items[i])], Sep(plat))

\* The length ceilings: the whole path on Windows, the encoded name elsewhere.
MaxPathWindows == 255

MaxBytesUnix == 249

\* len(c.encode('utf-8')) of one character of the model.
ByteLen(c) == IF c = "U+00E9" THEN 2 ELSE 1

Utf8Len(s) == Len(s) + Cardinality({i \in 1..Len(s) : ByteLen(s[i]) = 2})

\* The Unix loop: drop the last character of the stem while the encoded
\* name is longer than the ceiling.
RECURSIVE CutUnix(_)
CutUnix(name) ==
  IF Utf8Len(name) > MaxBytesUnix
  THEN LET parts == Splitext("Linux", name)
       IN  CutUnix(SliceTo(parts[1], Len(parts[1]) - 1) \o parts[2])
  ELSE name

\* The Windows branch: <<raised, name>>; the stem is cut when the resolved
\* path is longer than the ceiling, and OSError is raised when only the
\* extension is left.
CutWindows(name, rootDir) ==
  LET full_name == IF rootDir # NoneValue
                   THEN Abspath("Windows", PathJoin("Windows", rootDir, name))
                   ELSE Abspath("Windows", name)
      parts == Splitext("Windows", name)
      cut == SliceTo(parts[1], MaxPathWindows - Len(parts[2])) \o parts[2]
  IN  IF Len(full_name) > MaxPathWindows
      THEN [raised |-> cut = parts[2], name |-> cut]
      ELSE [raised |-> FALSE, name |-> name]

\* sanitize_filename(name, rootDir) on the platform plat: [raised, name].
sanitize_filename(plat, name, rootDir) ==
  LET root == IF rootDir # NoneValue THEN Abspath(plat, rootDir) ELSE NoneValue
      n1 == Unescape(name)
      n2 == BadCharsSub(n1)
      n3 == RemoveControl(n2)
      n4 == StripSegments(plat, n3)
      n5 == IF plat = "Windows" THEN CutWindows(n4, root)
            ELSE [raised |-> FALSE, name |-> CutUnix(n4)]
  IN  IF n5.raised THEN [raised |-> TRUE, name |-> <<>>]
      ELSE [raised |-> FALSE,
            name |-> IF root # NoneValue
                     THEN Abspath(plat, PathJoin(plat, root, n5.name))
                     ELSE n5.name]

(***************************************************************************)
(* State                                                                   *)
(***************************************************************************)

VARIABLES
  platform,         \* platform.system() of the host
  fs,               \* the files that exist: path |-> [origin, size]
  fs0,              \* fs when the call started
  dirs,             \* the directories that exist
  filename,         \* the path the call works on
  file_size,        \* the declared size of the new payload (0: unknown)
  overwrite,        \* the overwrite flag of the call
  raised,           \* the exception that left the call, or "none"
  g_pc,             \* check_file_exists: "call", "done"
  old_size,         \* check_file_exists: the size of the existing file
  backup_old_file,  \* check_file_exists: back the stale file up
  now,              \* check_file_exists: int(time.time()) of the last reading
  g_result,         \* check_file_exists: the value returned
  s_pc,             \* sanitize_filename: "input", "once", "twice"
  name,             \* sanitize_filename: the name given
  rootDir,          \* sanitize_filename: the root directory given, or None
  out1,             \* sanitize_filename(name, rootDir)
  out2,             \* sanitize_filename(out1, rootDir)
  d_pc,             \* download_image: "open", "fallback", "loop", "finally", "done"
  url,              \* download_image: the source locator
  dest,             \* download_image: the filename the caller gave
  save,             \* download_image: the staging handle: "none", "open", "closed"
  prev,             \* download_image: the byte count before the last chunk
  curr,             \* download_image: the byte count after the last chunk
  stream_len,       \* download_image: the bytes the source stream holds
  remaining,        \* download_image: the bytes of the stream not yet read
  d_outcome,        \* download_image: the outcome the finally block decided
  u_pc,             \* ugoira2*: the statement the conversion is at
  backend,          \* ugoira2*: "gif", "apng" or "webm"
  archive,          \* ugoira2*: the content of ugoira_file
  ugoira_file,      \* ugoira2*: "present" or "deleted"
  delete_ugoira,    \* ugoira2*: the delete flag
  temp,             \* ugoira2*: the extraction directory: "none", "exists", "removed"
  rm_count,         \* ugoira2*: the calls of shutil.rmtree on it
  filenames,        \* ugoira2*: os.listdir of the extraction directory
  frames,           \* ugoira2*: the frames list read from animation.json
  idx,              \* ugoira2*: the frame the loop is at
  frames_in,        \* ugoira2*: the frames decoded or appended so far
  handed,           \* ugoira2*: what the encoder was given
  enc_called,       \* ugoira2*: the encoder was invoked
  temp_out,         \* ugoira2*: the file at the temporary output path
  output,           \* ugoira2*: the file at exportname
  output0,          \* ugoira2*: the file at exportname before the call
  ret,              \* ugoira2webm: the exit code of the encoder, -1 before it exits
  p_stderr,         \* ugoira2webm: the lines the encoder writes to its stderr
  unread,           \* ugoira2webm: the lines of p_stderr not read yet
  chatter,          \* ugoira2webm: the text gathered since the last report
  printed,          \* ugoira2webm: the progress reports printed
  z_pc,             \* get_ugoira_size: the statement the call is at
  ugoName,          \* get_ugoira_size: the file at the path given
  z_size,           \* get_ugoira_size: the local size
  m_pc,             \* make_filename: "call", "done"
  nameFormat,       \* make_filename: the format, its tokens already replaced
  fileUrl,          \* make_filename: the source locator
  appendExtension,  \* make_filename: the flag
  imageExtension,   \* make_filename: the extension taken from fileUrl
  m_result          \* make_filename: the value returned

gateVars == <<old_size, backup_old_file, now, g_result, g_pc>>

mkVars == <<m_pc, nameFormat, fileUrl, appendExtension, imageExtension, m_result>>

\* The two functions that build names: sanitize_filename and make_filename.
sanVars == <<s_pc, name, rootDir, out1, out2, mkVars>>

fileVars == <<fs, fs0, dirs, filename, file_size, overwrite, raised>>

dlVars == <<d_pc, url, dest, save, prev, curr, stream_len, remaining, d_outcome>>

ugoVars == <<u_pc, backend, archive, ugoira_file, delete_ugoira, temp, rm_count,
             filenames, frames, idx, frames_in, handed, enc_called, temp_out,
             output, output0, ret, p_stderr, unread, chatter, printed,
             z_pc, ugoName, z_size>>

vars == <<platform, fileVars, gateVars, sanVars, dlVars, ugoVars>>

\* File-system helpers: a path exists when it is in the domain of fs.
Exists(f, p) == p \in DOMAIN f

Remove(f, p) == [q \in (DOMAIN f) \ {p} |-> f[q]]

Put(f, p, c) == [q \in (DOMAIN f) \cup {p} |-> IF q = p THEN c ELSE f[q]]

NoFiles == [q \in {} |-> 0]

\* os.path.dirname(p): the text before the last separator, without the
\* separators that end it (unless it is made of separators only).
Dirname(plat, p) ==
  LET head == Slice(p, 0, RFindAny(p, Seps(plat)) + 1)
  IN  IF RStrip(head, Seps(plat)) = <<>> THEN head ELSE RStrip(head, Seps(plat))

\* os.path.basename(p): the text after the last separator.
Basename(plat, p) == Slice(p, RFindAny(p, Seps(plat)) + 1, Len(p))

\* The variables of the operations that are not running.
GateIdle ==
  /\ g_pc = "idle" /\ old_size = 0 /\ backup_old_file = FALSE
  /\ now = 0 /\ g_result = "none"

\* make_filename is not running.
MkIdle ==
  /\ m_pc = "idle" /\ nameFormat = <<>> /\ fileUrl = <<>>
  /\ appendExtension = FALSE /\ imageExtension = <<>> /\ m_result = <<>>

NameIdle ==
  /\ s_pc = "idle" /\ name = <<>> /\ rootDir = NoneValue
  /\ out1 = [raised |-> FALSE, name |-> <<>>]
  /\ out2 = [raised |-> FALSE, name |-> <<>>]

SanIdle == NameIdle /\ MkIdle

DlIdle ==
  /\ d_pc = "idle" /\ url = <<>> /\ dest = <<>> /\ save = "none"
  /\ prev = 0 /\ curr = 0 /\ stream_len = 0 /\ remaining = 0
  /\ d_outcome = "none"

\* get_ugoira_size is not running.
SizeIdle ==
  /\ z_pc = "idle" /\ z_size = 0
  /\ ugoName = [zip_ok |-> FALSE, manifest |-> "missing", has_zipSize |-> FALSE,
                zipSize |-> 0, st_size |-> 0]

\* No conversion is running.
ConvIdle ==
  /\ u_pc = "idle" /\ backend = "none" /\ ugoira_file = "present"
  /\ archive = [zip_ok |-> FALSE, manifest |-> "missing", frames |-> <<>>, members |-> {}]
  /\ delete_ugoira = FALSE /\ temp = "none" /\ rm_count = 0
  /\ filenames = <<>> /\ frames = <<>> /\ idx = 1 /\ frames_in = <<>>
  /\ handed = <<>> /\ enc_called = FALSE /\ temp_out = "none"
  /\ output = "none" /\ output0 = "none" /\ ret = -1
  /\ p_stderr = <<>> /\ unread = <<>> /\ chatter = <<>> /\ printed = <<>>

UgoIdle == ConvIdle /\ SizeIdle

FilesIdle ==
  /\ fs = NoFiles /\ fs0 = NoFiles /\ dirs = {} /\ filename = <<>>
  /\ file_size = 0 /\ overwrite = FALSE /\ raised = "none"

(***************************************************************************)
(* sanitize_filename applied to a name, and to its own result              *)
(***************************************************************************)

\* The longest enumerated name.
MaxNameLen == 3

\* The characters of the enumerated names: a letter, the characters that
\* are stripped, both separators, a reserved character, a control character.
NameAlphabet == {"a", " ", ".", "/", "\\", "?", "\t"}

RECURSIVE SeqsUpTo(_, _)
SeqsUpTo(S, n) ==
  IF n = 0 THEN {<<>>}
  ELSE LET shorter == SeqsUpTo(S, n - 1)
       IN  shorter \cup {Append(t, c) : t \in {u \in shorter : Len(u) = n - 1}, c \in S}

\* Names with character references, a reserved device name, and names
\* longer than the ceilings.
SpecialNames ==
  { <<"&", "a", "m", "p", ";">>,
    <<"&", "l", "t", ";">>,
    <<"&", "a", "m", "p", ";", "l", "t", ";">>,
    <<"a", "&", "a", "m", "p", ";", "a", "m", "p", ";", "a">>,
    <<"&", "g", "t">>,
    <<"&", "q", "u", "o", "t", ";", ".", "a">>,
    <<"&", "a", "m", "p", "l", "t", ";">>,
    <<"C", "O", "N">>,
    <<" ", "c", "o", "n", ".", "a">>,
    <<"a", "/", "N", "U", "L", " ">>,
    Repeat("a", MaxBytesUnix) \o <<" ", "a", ".", "a">>,
    Repeat("a", MaxBytesUnix - 1) \o <<" ", "a">>,
    Repeat("a", MaxPathWindows) \o <<".", "a">>,
    <<".">> \o Repeat("a", MaxPathWindows) }

\* The model leaves out the names Windows would take as a UNC path: those
\* that begin with two separators once their segments are stripped.
InDomain(plat, n) ==
  plat = "Windows" =>
    ~StartsWith(ReplaceChars(StripSegments(plat, RemoveControl(BadCharsSub(Unescape(n)))),
                             {"/"}, "\\"),
                <<"\\", "\\">>)

Names(plat) ==
  {n \in SeqsUpTo(NameAlphabet, MaxNameLen) \cup SpecialNames : InDomain(plat, n)}

Roots(plat) ==
  IF plat = "Windows" THEN {NoneValue, <<"C", ":", "\\", "r">>}
  ELSE {NoneValue, <<"/", "r">>}

SanInit ==
  /\ platform \in Platforms
  /\ name \in Names(platform)
  /\ rootDir \in Roots(platform)
  /\ s_pc = "input"
  /\ out1 = [raised |-> FALSE, name |-> <<>>]
  /\ out2 = [raised |-> FALSE, name |-> <<>>]
  /\ MkIdle
  /\ GateIdle /\ FilesIdle /\ DlIdle /\ UgoIdle

\* A caller sanitizes a name.
Sanitize ==
  /\ s_pc = "input"
  /\ out1' = sanitize_filename(platform, name, rootDir)
  /\ s_pc' = "once"
  /\ UNCHANGED <<platform, name, rootDir, out2, mkVars, fileVars, gateVars, dlVars, ugoVars>>

\* A caller sanitizes the path it got back.
SanitizeAgain ==
  /\ s_pc = "once"
  /\ ~out1.raised
  /\ out2' = sanitize_filename(platform, out1.name, rootDir)
  /\ s_pc' = "twice"
  /\ UNCHANGED <<platform, name, rootDir, out1, mkVars, fileVars, gateVars, dlVars, ugoVars>>

SanNext == Sanitize \/ SanitizeAgain

SpecSanitize == SanInit /\ [][SanNext]_vars

\* C10: sanitizing an already sanitized path returns it unchanged:
\* sanitize_filename(sanitize_filename(name, root), root) equals
\* sanitize_filename(name, root) for every name and root directory.
C10_Idempotent == s_pc = "twice" => out2 = out1

\* The name sanitize_filename holds when it reaches the length ceiling,
\* and the path that name resolves to.
StrippedName == StripSegments(platform, RemoveControl(BadCharsSub(Unescape(name))))

ResolvedPath(n) ==
  IF rootDir # NoneValue
  THEN Abspath(platform, PathJoin(platform, Abspath(platform, rootDir), n))
  ELSE Abspath(platform, n)

\* The stem characters that fit under the ceiling once the directories and
\* the extension of the resolved path are counted.
StemRoom ==
  MaxPathWindows - (Len(ResolvedPath(StrippedName))
                      - Len(Splitext(platform, StrippedName)[1]))

\* C11: on Windows, when the resolved path of the sanitized name is longer
\* than 255 characters, sanitize_filename raises exactly when no stem
\* character can remain, and otherwise returns a name whose resolved path
\* has at most 255 characters and still ends with the whole extension.
C11_FitsCeiling ==
  (/\ s_pc # "input"
   /\ platform = "Windows"
   /\ Len(ResolvedPath(StrippedName)) > MaxPathWindows)
  => /\ out1.raised <=> (StemRoom <= 0)
     /\ ~out1.raised =>
          /\ Len(ResolvedPath(out1.name)) <= MaxPathWindows
          /\ Splitext(platform, out1.name)[2] = Splitext(platform, StrippedName)[2]

\* The segments of a returned name, as name.split(os.sep) gives them.
Segments(plat, n) == Split(n, Sep(plat))

\* C18: every segment of the name sanitize_filename returns is free of
\* leading and trailing spaces and periods and is not a reserved device name
\* of the platform (a colliding segment comes back with '_' before it).
C18_SegmentsClean ==
  (s_pc # "input" /\ ~out1.raised) =>
    \A i \in 1..Len(Segments(platform, out1.name)) :
      LET seg == Segments(platform, out1.name)[i]
      IN  /\ Strip(seg, {" ", "."}) = seg
          /\ ~IsReserved(platform, seg)

(***************************************************************************)
(* check_file_exists                                                       *)
(***************************************************************************)

\* The longest path, the largest size and the latest clock reading given
\* to check_file_exists.
MaxPathLen == 3

MaxSize == 2

MaxTime == 10

\* The characters of the paths: a letter, the '.', a separator.
PathAlphabet == {"a", ".", "/"}

\* The paths that can name an existing file: the last segment is not
\* empty, '.' or '..'.
FilePaths ==
  {p \in SeqsUpTo(PathAlphabet, MaxPathLen) :
     Basename("Linux", p) \notin {<<>>, <<".">>, <<".", ".">>}}

\* The existing file, as the caller found it.
OldFile(size) == [origin |-> "old", size |-> size]

\* The name the stale file is backed up to, at the clock reading t.
BackupName(path, t) ==
  LET split_name == RSplit1(path, ".")
  IN  IF Len(split_name) = 2
      THEN split_name[1] \o <<".">> \o StrOfNat(t) \o <<".">> \o split_name[2]
      ELSE path \o <<".">> \o StrOfNat(t)

\* A gate that skips only when the local file is larger.
SkipsLocalLarger(ow, new_size, existing_size) == ~ow /\ new_size < existing_size

\* The test that decides to skip the download.
SkipsDuplicate(ow, new_size, existing_size) == ~ow /\ new_size = existing_size

\* os.rename(src, dst) of an existing file src: [raised, fs].  It fails when
\* the directory of dst does not exist, and on Windows when dst exists.
Rename(plat, f, ds, src, dst) ==
  IF Dirname(plat, dst) \notin ds
  THEN [raised |-> "FileNotFoundError", fs |-> f]
  ELSE IF plat = "Windows" /\ Exists(f, dst)
  THEN [raised |-> "FileExistsError", fs |-> f]
  ELSE [raised |-> "none", fs |-> Put(Remove(f, src), dst, f[src])]

GateInit ==
  /\ platform \in Platforms
  /\ filename \in FilePaths
  /\ file_size \in 0..MaxSize
  /\ old_size \in 0..MaxSize
  /\ overwrite \in BOOLEAN
  /\ backup_old_file \in BOOLEAN
  /\ fs = Put(NoFiles, filename, OldFile(old_size))
  /\ fs0 = fs
  /\ dirs \in { {Dirname(platform, filename)},
                {Dirname(platform, filename)} \cup
                  {Dirname(platform, BackupName(filename, t)) : t \in 0..MaxTime} }
  /\ now = 0
  /\ raised = "none"
  /\ g_pc = "call"
  /\ g_result = "none"
  /\ SanIdle /\ DlIdle /\ UgoIdle

\* check_file_exists(overwrite, filename, file_size, old_size, backup_old_file)
CheckFileExists ==
  /\ g_pc = "call"
  /\ g_pc' = "done"
  /\ IF SkipsDuplicate(overwrite, file_size, old_size)
     THEN /\ g_result' = "PIXIVUTIL_SKIP_DUPLICATE"
          /\ UNCHANGED <<fs, now, raised>>
     ELSE IF backup_old_file
     THEN \E t \in 0..MaxTime :
            LET r == Rename(platform, fs, dirs, filename, BackupName(filename, t))
            IN  /\ now' = t
                /\ fs' = r.fs
                /\ raised' = r.raised
                /\ g_result' = IF r.raised = "none" THEN "PIXIVUTIL_OK" ELSE "none"
     ELSE /\ fs' = Remove(fs, filename)
          /\ g_result' = "PIXIVUTIL_OK"
          /\ UNCHANGED <<now, raised>>
  /\ UNCHANGED <<platform, fs0, dirs, filename, file_size, overwrite,
                 old_size, backup_old_file, sanVars, dlVars, ugoVars>>

GateNext == CheckFileExists

SpecGate == GateInit /\ [][GateNext]_vars

\* C4: with overwrite not requested and the declared size equal to the size
\* of the existing file, check_file_exists returns SkipDuplicate and changes
\* nothing on disk: the file is neither renamed, deleted nor rewritten.
C4_SkipLeavesFile ==
  (g_pc = "done" /\ ~overwrite /\ file_size = old_size) =>
    /\ g_result = "PIXIVUTIL_SKIP_DUPLICATE"
    /\ fs = fs0
    /\ raised = "none"

C4_Witness ==
  /\ g_pc = "done" /\ ~overwrite /\ file_size = old_size
  /\ g_result = "PIXIVUTIL_SKIP_DUPLICATE"
  /\ backup_old_file
  /\ Exists(fs, filename)

\* The name the claim describes: in the directory of the file, the clock
\* reading inserted before the extension of its last segment (appended when
\* the segment has no '.').
InsertedName(plat, path, t) ==
  LET k == RFindAny(path, Seps(plat)) + 1
  IN  Slice(path, 0, k) \o BackupName(Slice(path, k, Len(path)), t)

\* C5: when check_file_exists does not skip, the existing file is stale:
\* with backup_old_file it is renamed, in its own directory, to its name with
\* the epoch second inserted before the extension, and otherwise it is
\* deleted; the call proceeds and no file is left under the original name.
C5_StaleFileReplaced ==
  (g_pc = "done" /\ (overwrite \/ file_size # old_size)) =>
    /\ g_result = "PIXIVUTIL_OK"
    /\ ~Exists(fs, filename)
    /\ IF backup_old_file
       THEN fs = Put(NoFiles, InsertedName(platform, filename, now), fs0[filename])
       ELSE fs = NoFiles

(***************************************************************************)
(* download_image                                                          *)
(***************************************************************************)

\* The most bytes one read returns (PixivConstant.BUFFER_SIZE, scaled) and
\* the most bytes a source stream holds.
MaxChunk == 2

MaxStream == 3

\* The staging name of a file.
StagingSuffix == <<".", "p", "i", "x", "i", "v">>

Staging(path) == path \o StagingSuffix

\* The bytes written so far of the payload.
NewFile(size) == [origin |-> "new", size |-> size]

\* The destinations and the source locators of the calls.
DestPaths == { <<"a", ".", "a">>, <<"d", "/", "a">> }

Urls ==
  { <<"h", "/", "b", ".", "a", "?", "a">>,
    <<"h", "/", "b">>,
    <<"h", "/", "b", ":", "?", "a">> }

\* A fallback that sanitizes the last segment with its query.
FallbackKeepsQuery(plat, u) ==
  sanitize_filename(plat, Basename(plat, u), NoneValue).name

\* The name derived from the locator: its last segment, up to the '?',
\* sanitized; it is relative, so it lies in the current directory.
FallbackName(plat, u) ==
  sanitize_filename(plat, Split(Basename(plat, u), "?")[1], NoneValue).name

\* What the finally block decides from the declared size and the count.
Outcome(fsz, cur) ==
  IF fsz > 0 /\ cur < fsz THEN "IncompleteKnownSize"
  ELSE IF cur = 0 THEN "NoDataReceived"
  ELSE "Completed"

\* A finally block that forgets to remove the staging file of a failure.
FinalizeKeepsStaging(plat, f, ds, path, ow, outcome) ==
  IF outcome = "Completed"
  THEN Rename(plat, IF ow /\ Exists(f, path) THEN Remove(f, path) ELSE f,
              ds, Staging(path), path)
  ELSE [raised |-> "none", fs |-> f]

\* The end of the finally block: [raised, fs].  A completed transfer removes
\* the destination when overwrite is set and renames the staging file to it;
\* any other outcome removes the staging file.
Finalize(plat, f, ds, path, ow, outcome) ==
  IF outcome = "Completed"
  THEN Rename(plat, IF ow /\ Exists(f, path) THEN Remove(f, path) ELSE f,
              ds, Staging(path), path)
  ELSE [raised |-> "none", fs |-> Remove(f, Staging(path))]

\* A loop that tests the empty read only.
BreaksOnEmptyRead(fsz, cur, prv) == cur = prv

\* The two break tests of the while loop, taken after each chunk.
Breaks(fsz, cur, prv) == (fsz > 0 /\ cur = fsz) \/ cur = prv

DlInit ==
  /\ platform \in Platforms
  /\ dest \in DestPaths
  /\ filename = dest
  /\ url \in Urls
  /\ file_size \in 0..MaxSize
  /\ overwrite \in BOOLEAN
  /\ stream_len \in 0..MaxStream
  /\ remaining = stream_len
  /\ \E old \in 0..MaxSize :
       \* old = 0: no file under the destination yet
       fs = IF old = 0 THEN NoFiles ELSE Put(NoFiles, dest, OldFile(old))
  /\ fs0 = fs
  /\ dirs \in IF Exists(fs, dest) THEN { {<<>>, Dirname(platform, dest)} }
              ELSE { {<<>>}, {<<>>, Dirname(platform, dest)} }
  /\ raised = "none"
  /\ d_pc = "open"
  /\ save = "none"
  /\ prev = 0
  /\ curr = 0
  /\ d_outcome = "none"
  /\ GateIdle /\ SanIdle /\ UgoIdle

\* makeSubdirs(filename); open(filename + '.pixiv', 'wb+'): the staging file
\* is created empty, or IOError is caught and the fallback is taken.
OpenStaging ==
  /\ d_pc = "open"
  /\ \/ /\ dirs' = dirs \cup {Dirname(platform, filename)}
        /\ fs' = Put(fs, Staging(filename), NewFile(0))
        /\ save' = "open"
        /\ d_pc' = "loop"
     \/ /\ dirs' \in {dirs, dirs \cup {Dirname(platform, filename)}}
        /\ d_pc' = "fallback"
        /\ UNCHANGED <<fs, save>>
  /\ UNCHANGED <<platform, fs0, filename, file_size, overwrite, raised, url, dest,
                 prev, curr, stream_len, remaining, d_outcome, gateVars, sanVars, ugoVars>>

\* The except IOError branch: the name is derived from the locator and the
\* staging file is opened in the current directory; a second failure leaves
\* the call.
OpenFallback ==
  /\ d_pc = "fallback"
  /\ filename' = FallbackName(platform, url)
  /\ \/ /\ fs' = Put(fs, Staging(filename'), NewFile(0))
        /\ save' = "open"
        /\ d_pc' = "loop"
        /\ UNCHANGED raised
     \/ /\ raised' = "IOError"
        /\ d_pc' = "done"
        /\ UNCHANGED <<fs, save>>
  /\ UNCHANGED <<platform, fs0, dirs, file_size, overwrite, url, dest,
                 prev, curr, stream_len, remaining, d_outcome, gateVars, sanVars, ugoVars>>

\* One pass of the while loop: a chunk of n bytes is read (n = 0 only at the
\* end of the stream) and written, curr is the position of the handle, and
\* the loop is left when curr is the declared size or did not move.
ReadChunk ==
  /\ d_pc = "loop"
  /\ \E n \in 0..MaxChunk :
       /\ n <= remaining
       /\ (n = 0) <=> (remaining = 0)
       /\ remaining' = remaining - n
       /\ fs' = Put(fs, Staging(filename), NewFile(fs[Staging(filename)].size + n))
       /\ curr' = fs'[Staging(filename)].size
  /\ IF Breaks(file_size, curr', prev)
     THEN d_pc' = "finally" /\ prev' = prev
     ELSE d_pc' = "loop" /\ prev' = curr'
  /\ UNCHANGED <<platform, fs0, dirs, filename, file_size, overwrite, raised, url,
                 dest, save, stream_len, d_outcome, gateVars, sanVars, ugoVars>>

\* res.read raises (the connection breaks with bytes outstanding): nothing
\* is written, the exception passes through the finally block.
ReadRaises ==
  /\ d_pc = "loop"
  /\ remaining > 0
  /\ raised' = "ReadError"
  /\ d_pc' = "finally"
  /\ UNCHANGED <<platform, fs, fs0, dirs, filename, file_size, overwrite, url, dest,
                 save, prev, curr, stream_len, remaining, d_outcome, gateVars, sanVars, ugoVars>>

\* save.write raises (the disk is full) with k of the n bytes read on disk;
\* curr keeps the count of the pass before.
WriteRaises ==
  /\ d_pc = "loop"
  /\ \E n \in 1..MaxChunk : \E k \in 0..(n - 1) :
       /\ n <= remaining
       /\ remaining' = remaining - n
       /\ fs' = Put(fs, Staging(filename), NewFile(fs[Staging(filename)].size + k))
  /\ raised' = "WriteError"
  /\ d_pc' = "finally"
  /\ UNCHANGED <<platform, fs0, dirs, filename, file_size, overwrite, url, dest,
                 save, prev, curr, stream_len, d_outcome, gateVars, sanVars, ugoVars>>

\* The finally block: the handle is closed, the outcome is decided from
\* curr, and the staging file is promoted or removed.  An exception of the
\* rename replaces the one in flight.
Finally ==
  /\ d_pc = "finally"
  /\ save' = "closed"
  /\ d_outcome' = Outcome(file_size, curr)
  /\ LET r == Finalize(platform, fs, dirs, filename, overwrite, d_outcome')
     IN  /\ fs' = r.fs
         /\ raised' = IF r.raised # "none" THEN r.raised ELSE raised
  /\ d_pc' = "done"
  /\ UNCHANGED <<platform, fs0, dirs, filename, file_size, overwrite, url, dest,
                 prev, curr, stream_len, remaining, gateVars, sanVars, ugoVars>>

DlNext ==
  OpenStaging \/ OpenFallback \/ ReadChunk \/ ReadRaises \/ WriteRaises \/ Finally

SpecDownload == DlInit /\ [][DlNext]_vars

\* The staging file was renamed to the name the call saves under.
Promoted ==
  /\ d_pc = "done"
  /\ d_outcome = "Completed"
  /\ Exists(fs, filename)
  /\ fs[filename].origin = "new"

\* No staging file of the call is on disk.
NoStagingLeft ==
  /\ ~Exists(fs, Staging(dest))
  /\ ~Exists(fs, Staging(filename))

\* C1: every download with a known declared size that ends completed (the
\* staging file renamed to the destination) leaves a file of exactly the
\* declared size and no staging file, whatever chunks the stream delivers.
C1_CommittedSizeExact ==
  (Promoted /\ file_size > 0) =>
    /\ fs[filename].size = file_size
    /\ NoStagingLeft

\* A path is absent or holds what it held when the call started.
AbsentOrUnchanged(p) == Exists(fs, p) => (Exists(fs0, p) /\ fs[p] = fs0[p])

\* C2: after a download that fails as IncompleteKnownSize or NoDataReceived
\* the destination is absent or holds what it held before the call, and no
\* staging file exists.
C2_FailureLeavesNothing ==
  (d_pc = "done" /\ d_outcome \in {"IncompleteKnownSize", "NoDataReceived"}) =>
    /\ AbsentOrUnchanged(dest)
    /\ AbsentOrUnchanged(filename)
    /\ NoStagingLeft

C2_Witness ==
  /\ d_pc = "done"
  /\ d_outcome = "IncompleteKnownSize"
  /\ file_size = 2 /\ curr = 1
  /\ Exists(fs0, dest)
  /\ raised = "none"

\* The whole payload: the declared size when it is known, and else (or when
\* the stream ends first) all the bytes of the stream.
FullPayload(c) ==
  /\ c.origin = "new"
  /\ c.size \in {stream_len} \cup (IF file_size > 0 THEN {file_size} ELSE {})

\* C3: in every state of a download, also after an exception of the read or
\* the write, the name the call saves under holds what it held before the
\* call or the whole payload, never a part of it; on such an exception the
\* handle is closed and the staging file is deleted, not promoted.
C3_NoPartialFinalName ==
  /\ \A p \in {dest, filename} :
       Exists(fs, p) => \/ (Exists(fs0, p) /\ fs[p] = fs0[p])
                        \/ FullPayload(fs[p])
  /\ (d_pc = "done" /\ raised \in {"ReadError", "WriteError"}) =>
       /\ save = "closed"
       /\ NoStagingLeft
       /\ ~Promoted

\* The thread of the call keeps running: a pass of the loop that can be
\* taken is taken, and so is the finally block.
SpecDownloadFair == SpecDownload /\ WF_vars(ReadChunk) /\ WF_vars(Finally)

\* A pass of the loop that raised nothing.
ChunkPass == d_pc = "loop" /\ d_pc' \in {"loop", "finally"} /\ raised' = raised

\* The bytes the stream has delivered.
Delivered == stream_len - remaining

\* C12: a pass of the chunk loop leaves the loop exactly when the byte count
\* now equals a known declared size or the read added no byte; every download
\* that reached the loop ends with Completed, IncompleteKnownSize or
\* NoDataReceived; and with the declared size unknown a download that raised
\* nothing ends Completed if a byte was written and NoDataReceived if not.
C12_LoopTerminates ==
  /\ [][ChunkPass =>
          ((d_pc' = "finally") <=>
             \/ (file_size > 0 /\ Delivered' = file_size)
             \/ Delivered' = Delivered)]_vars
  /\ (d_pc = "loop") ~>
       (d_pc = "done"
          /\ d_outcome \in {"Completed", "IncompleteKnownSize", "NoDataReceived"})
  /\ []((d_pc = "done" /\ d_outcome # "none" /\ file_size = 0
           /\ raised \notin {"ReadError", "WriteError"})
        => d_outcome = IF Delivered > 0 THEN "Completed" ELSE "NoDataReceived")

C12_Witness ==
  /\ d_pc = "done"
  /\ file_size = 0
  /\ stream_len = MaxStream /\ remaining = 0
  /\ prev = curr /\ curr = stream_len
  /\ d_outcome = "Completed"
  /\ raised = "none"

\* The fallback name of each locator: its last segment without the query,
\* with the reserved ':' replaced.
ExpectedFallback ==
  CASE url = <<"h", "/", "b", ".", "a", "?", "a">> -> <<"b", ".", "a">>
    [] url = <<"h", "/", "b">> -> <<"b">>
    [] url = <<"h", "/", "b", ":", "?", "a">> -> <<"b", "_">>

\* The first open failed and the second did not.
FellBack == d_pc \in {"loop", "finally", "done"} /\ raised # "IOError" /\ filename # dest

\* C16: when the first open of the staging file fails the fallback is tried
\* once; the name is the last segment of the locator without its query,
\* sanitized, in the current directory; the staging file, the committed file
\* and the name reported are under that name and nothing is written under
\* the destination; when the second open fails too the call raises and no
\* staging file and no other file has been created.
C16_FallbackOnce ==
  /\ [][d_pc = "fallback" =>
          \/ d_pc' = "loop" /\ save' = "open" /\ raised' = "none"
          \/ d_pc' = "done" /\ raised' = "IOError"]_vars
  /\ [](FellBack =>
          /\ filename = ExpectedFallback
          /\ Dirname(platform, filename) = <<>>
          /\ d_pc \in {"loop", "finally"} => Exists(fs, Staging(filename))
          /\ ~Exists(fs, Staging(dest))
          /\ AbsentOrUnchanged(dest)
          /\ (d_pc = "done" /\ d_outcome = "Completed") =>
               /\ Exists(fs, filename)
               /\ fs[filename].origin = "new"
               /\ ~Exists(fs, Staging(filename)))
  /\ []((d_pc = "done" /\ raised = "IOError") =>
          /\ fs = fs0
          /\ NoStagingLeft
          /\ save = "none"
          /\ d_outcome = "none")

C16_Witness ==
  /\ d_pc = "done"
  /\ url = <<"h", "/", "b", ":", "?", "a">>
  /\ filename = <<"b", "_">>
  /\ d_outcome = "Completed"
  /\ Exists(fs, filename)
  /\ fs[filename].size = MaxStream
  /\ ~Exists(fs, dest)

(***************************************************************************)
(* ugoira2gif, ugoira2apng, ugoira2webm                                    *)
(***************************************************************************)

\* The longest frames list, the longest delay (ms) and the largest exit
\* code of the encoder.
MaxFrames == 2

MaxDelay == 2

MaxExit == 1

\* The delay of the manifest is in milliseconds; the encoders are given
\* seconds, float(delay) / 1000.
MillisPerSecond == 1000

Backends == {"gif", "apng", "webm"}

\* The image files an archive can hold, and its manifest.
FrameFiles == {"A", "B"}

ManifestName == "animation.json"

FrameInfos == [file : FrameFiles, delay : 1..MaxDelay]

FrameLists == UNION {[1..n -> FrameInfos] : n \in 0..MaxFrames}

\* An archive: not a zip at all, a zip without manifest, a zip whose manifest
\* is not the JSON expected, or a zip with a frames list; members are the
\* images in it that decode.
Archives ==
  { [zip_ok |-> FALSE, manifest |-> "missing", frames |-> <<>>, members |-> {}],
    [zip_ok |-> TRUE, manifest |-> "missing", frames |-> <<>>, members |-> FrameFiles],
    [zip_ok |-> TRUE, manifest |-> "malformed", frames |-> <<>>, members |-> FrameFiles] }
  \cup
  { [zip_ok |-> TRUE, manifest |-> "ok", frames |-> fl, members |-> m] :
      fl \in FrameLists, m \in {FrameFiles, {"A"}} }

\* The orders os.listdir can return the extracted files in.
Listings(a) ==
  LET S == a.members \cup (IF a.manifest = "missing" THEN {} ELSE {ManifestName})
  IN  {l \in [1..Cardinality(S) -> S] : \A i, j \in 1..Cardinality(S) : l[i] = l[j] => i = j}

\* A loop that takes the i-th image of the directory listing instead.
FrameAtListing(frame_list, listing, i) ==
  LET imgs == SelectSeq(listing, LAMBDA f : f # ManifestName)
  IN  IF i <= Len(imgs) THEN [file |-> imgs[i], delay |-> frame_list[i].delay]
      ELSE frame_list[i]

\* The frame the i-th pass of 'for info in anim_info["frames"]' works on.
FrameAt(frame_list, listing, i) == frame_list[i]

\* One frame as the encoder gets it: the file and the delay in seconds.
Timed(info) == [file |-> info.file, num |-> info.delay, den |-> MillisPerSecond]

\* The concat script of ugoira2webm: the header, a file line and a duration
\* line for each frame, and the last frame's file line once more.
RECURSIVE ScriptLines(_, _, _)
ScriptLines(frame_list, listing, i) ==
  IF i > Len(frame_list) THEN <<>>
  ELSE LET info == FrameAt(frame_list, listing, i)
       IN  << [kind |-> "file", file |-> info.file, num |-> 0, den |-> 1],
              [kind |-> "duration", file |-> "", num |-> info.delay, den |-> MillisPerSecond] >>
           \o ScriptLines(frame_list, listing, i + 1)

Ffconcat(frame_list, listing) ==
  << [kind |-> "header", file |-> "", num |-> 0, den |-> 1] >>
  \o ScriptLines(frame_list, listing, 1)
  \o << [kind |-> "file", file |-> frame_list[Len(frame_list)].file, num |-> 0, den |-> 1] >>

\* The most lines the encoder writes to its stderr.
MaxLines == 2

\* The substring that marks a progress line; one character of the model.
Marker == "frame="

\* str.strip() without argument.
Whitespace == {" ", "\t", "\r", "\n"}

EndsWith(s, c) == Len(s) > 0 /\ s[Len(s)] = c

\* The lines the encoder writes, each without the '\n' that ends it: a
\* progress line as ffmpeg prints it, one with text before the marker, lines
\* without the marker, a line with the marker that ends without '\r', and
\* the blank line.
StderrLines ==
  { <<"frame=", "1", "\r">>,
    <<"x", "frame=", "\r">>,
    <<"x", "\r">>,
    <<"x">>,
    <<"x", "frame=">>,
    <<>> }

Streams == UNION {[1..n -> StderrLines] : n \in 0..MaxLines}

\* A decoder that takes every file for an image.
DecodesAnything(info, members) == TRUE

\* imageio.imread or APNG.append_file reads the frame: it raises unless the
\* file is an image of the archive that decodes.
Decodes(info, members) == info.file \in members

\* A converter that deletes the archive whatever the flag.
AlwaysDelete(flag) == TRUE

\* The test that decides to delete the source archive.
ShouldDelete(flag) == flag

UgoInit ==
  /\ backend \in Backends
  /\ archive \in Archives
  /\ delete_ugoira \in BOOLEAN
  /\ output0 \in {"none", "old"}
  /\ output = output0
  /\ ugoira_file = "present"
  /\ u_pc = "mkdtemp"
  /\ temp = "none" /\ rm_count = 0
  /\ filenames = <<>> /\ frames = <<>> /\ idx = 1 /\ frames_in = <<>>
  /\ handed = <<>> /\ enc_called = FALSE /\ temp_out = "none" /\ ret = -1
  /\ p_stderr = <<>> /\ unread = <<>> /\ chatter = <<>> /\ printed = <<>>
  /\ SizeIdle
  /\ platform = "Linux" /\ raised = "none"
  /\ fs = NoFiles /\ fs0 = NoFiles /\ dirs = {} /\ filename = <<>>
  /\ file_size = 0 /\ overwrite = FALSE
  /\ GateIdle /\ SanIdle /\ DlIdle

\* What no step of a conversion changes.
UgoFrame ==
  UNCHANGED <<platform, fs, fs0, dirs, filename, file_size, overwrite, gateVars,
              sanVars, dlVars, backend, archive, delete_ugoira, output0,
              z_pc, ugoName, z_size>>

\* The pipe of the encoder and what was read from it.
pipeVars == <<p_stderr, unread, chatter, printed>>

\* An exception e leaves the conversion: ugoira2webm runs its finally block,
\* the other two have none.
Raise(e) ==
  /\ raised' = e
  /\ u_pc' = IF backend = "webm" THEN "finally" ELSE "done"

\* tempfile.mkdtemp()
Mkdtemp ==
  /\ u_pc = "mkdtemp"
  /\ temp' = "exists"
  /\ u_pc' = "extract"
  /\ UNCHANGED <<raised, ugoira_file, rm_count, filenames, frames, idx, frames_in,
                 handed, enc_called, temp_out, output, ret>>
  /\ UNCHANGED pipeVars
  /\ UgoFrame

\* zipfile.ZipFile(ugoira_file).extractall(temp_folder)
Extract ==
  /\ u_pc = "extract"
  /\ IF archive.zip_ok
     THEN /\ filenames' \in Listings(archive)
          /\ u_pc' = "manifest"
          /\ UNCHANGED raised
     ELSE /\ Raise("BadZipFile")
          /\ UNCHANGED filenames
  /\ UNCHANGED <<ugoira_file, temp, rm_count, frames, idx, frames_in, handed,
                 enc_called, temp_out, output, ret>>
  /\ UNCHANGED pipeVars
  /\ UgoFrame

\* The manifest is read: filenames.remove('animation.json') and json.load in
\* ugoira2gif and ugoira2apng, open and json.load(f)['frames'] in ugoira2webm.
ReadManifest ==
  /\ u_pc = "manifest"
  /\ IF archive.manifest = "missing"
     THEN /\ Raise(IF backend = "webm" THEN "FileNotFoundError" ELSE "ValueError")
          /\ UNCHANGED frames
     ELSE IF archive.manifest = "malformed"
     THEN /\ Raise("JSONDecodeError")
          /\ UNCHANGED frames
     ELSE /\ frames' = archive.frames
          /\ u_pc' = IF backend = "webm" THEN "script" ELSE "frames"
          /\ UNCHANGED raised
  /\ UNCHANGED <<ugoira_file, temp, rm_count, filenames, idx, frames_in, handed,
                 enc_called, temp_out, output, ret>>
  /\ UNCHANGED pipeVars
  /\ UgoFrame

\* One pass of the frame loop of ugoira2gif (imageio.imread) or ugoira2apng
\* (append_file): the frame is decoded and kept with its delay, or the
\* decoder raises.
NextFrame ==
  /\ u_pc = "frames"
  /\ idx <= Len(frames)
  /\ LET info == FrameAt(frames, filenames, idx)
     IN  IF Decodes(info, archive.members)
         THEN /\ frames_in' = Append(frames_in, Timed(info))
              /\ idx' = idx + 1
              /\ UNCHANGED <<u_pc, raised>>
         ELSE /\ Raise("DecodeError")
              /\ UNCHANGED <<frames_in, idx>>
  /\ UNCHANGED <<ugoira_file, temp, rm_count, filenames, frames, handed,
                 enc_called, temp_out, output, ret>>
  /\ UNCHANGED pipeVars
  /\ UgoFrame

\* imageio.mimsave(temp_name, images, fmt, duration=durations) or
\* im.save(temp_name): the encoder gets the frames and writes the temporary
\* file, or raises and leaves nothing or a part of it.
Encode ==
  /\ u_pc = "frames"
  /\ idx > Len(frames)
  /\ handed' = frames_in
  /\ enc_called' = TRUE
  /\ \/ /\ temp_out' = "encoded"
        /\ u_pc' = "move"
        /\ UNCHANGED raised
     \/ /\ temp_out' \in {"none", "partial"}
        /\ Raise("EncodeError")
  /\ UNCHANGED <<ugoira_file, temp, rm_count, filenames, frames, idx, frames_in,
                 output, ret>>
  /\ UNCHANGED pipeVars
  /\ UgoFrame

\* ugoira2webm builds the concat script and writes i.ffconcat; frames[-1]
\* raises on an empty list.
WriteScript ==
  /\ u_pc = "script"
  /\ IF Len(frames) = 0
     THEN /\ Raise("IndexError")
          /\ UNCHANGED frames_in
     ELSE /\ frames_in' = Ffconcat(frames, filenames)
          /\ u_pc' = "popen"
          /\ UNCHANGED raised
  /\ UNCHANGED <<ugoira_file, temp, rm_count, filenames, frames, idx, handed,
                 enc_called, temp_out, output, ret>>
  /\ UNCHANGED pipeVars
  /\ UgoFrame

\* subprocess.Popen, the loop over the child's stderr and p.wait() as one
\* step: the encoder reads the script and exits with a code; with code 0 it
\* has written the temporary file, with another code nothing or a part of
\* it.  Popen raises when the executable cannot be started.  What the loop
\* reads and prints has no part in it; SpecStderr follows the loop line by
\* line.
RunEncoder ==
  /\ u_pc = "popen"
  /\ \/ /\ handed' = frames_in
        /\ enc_called' = TRUE
        /\ \E code \in 0..MaxExit :
             /\ ret' = code
             /\ temp_out' \in IF code = 0 THEN {"encoded"} ELSE {"none", "partial"}
        /\ u_pc' = "move"
        /\ UNCHANGED raised
     \/ /\ Raise("OSError")
        /\ UNCHANGED <<handed, enc_called, ret, temp_out>>
  /\ UNCHANGED <<ugoira_file, temp, rm_count, filenames, frames, idx, frames_in, output>>
  /\ UNCHANGED pipeVars
  /\ UgoFrame

\* subprocess.Popen(ffmpeg_args, stderr=PIPE): the encoder starts with the
\* script, and will write some lines to its stderr; Popen raises when the
\* executable cannot be started.
Popen ==
  /\ u_pc = "popen"
  /\ \/ /\ handed' = frames_in
        /\ enc_called' = TRUE
        /\ p_stderr' \in Streams
        /\ unread' = p_stderr'
        /\ u_pc' = "stderr"
        /\ UNCHANGED raised
     \/ /\ Raise("OSError")
        /\ UNCHANGED <<handed, enc_called, p_stderr, unread>>
  /\ UNCHANGED <<ugoira_file, temp, rm_count, filenames, frames, idx, frames_in,
                 temp_out, output, ret, chatter, printed>>
  /\ UgoFrame

\* One pass of 'while p.stderr': readline() gives the next line, or b'' at
\* the end of the stream, and its '\n' is stripped; the text gathered is
\* reported when the line ends with '\r' and the marker is found in it past
\* its first character; an empty buff leaves the loop.
ReadStderr ==
  /\ u_pc = "stderr"
  /\ LET buff == IF unread = <<>> THEN <<>> ELSE Head(unread)
         gathered == chatter \o buff
     IN  /\ unread' = IF unread = <<>> THEN unread ELSE Tail(unread)
         /\ chatter' = IF EndsWith(buff, "\r") THEN <<>> ELSE gathered
         /\ printed' = IF EndsWith(buff, "\r") /\ Find(gathered, Marker) > 0
                       THEN Append(printed, Strip(gathered, Whitespace))
                       ELSE printed
         /\ u_pc' = IF Len(buff) = 0 THEN "wait" ELSE "stderr"
  /\ UNCHANGED <<raised, ugoira_file, temp, rm_count, filenames, frames, idx,
                 frames_in, handed, enc_called, temp_out, output, ret, p_stderr>>
  /\ UgoFrame

\* ret = p.wait(): the encoder exits with a code; with code 0 it has written
\* the temporary file, with another code nothing or a part of it.
Wait ==
  /\ u_pc = "wait"
  /\ \E code \in 0..MaxExit :
       /\ ret' = code
       /\ temp_out' \in IF code = 0 THEN {"encoded"} ELSE {"none", "partial"}
  /\ u_pc' = "move"
  /\ UNCHANGED <<raised, ugoira_file, temp, rm_count, filenames, frames, idx,
                 frames_in, handed, enc_called, output>>
  /\ UNCHANGED pipeVars
  /\ UgoFrame

\* shutil.move(temp_name, exportname): the temporary file replaces the file
\* at exportname; it raises when there is no temporary file or the
\* destination cannot be written.
Move ==
  /\ u_pc = "move"
  /\ \/ /\ temp_out # "none"
        /\ output' = temp_out
        /\ temp_out' = "none"
        /\ u_pc' = IF backend = "webm" THEN "delete" ELSE "rmtree"
        /\ UNCHANGED raised
     \/ /\ Raise(IF temp_out = "none" THEN "FileNotFoundError" ELSE "OSError")
        /\ UNCHANGED <<output, temp_out>>
  /\ UNCHANGED <<ugoira_file, temp, rm_count, filenames, frames, idx, frames_in,
                 handed, enc_called, ret>>
  /\ UNCHANGED pipeVars
  /\ UgoFrame

\* shutil.rmtree(temp_folder) of ugoira2gif and ugoira2apng.
Rmtree ==
  /\ u_pc = "rmtree"
  /\ temp' = "removed"
  /\ temp_out' = "none"
  /\ rm_count' = rm_count + 1
  /\ u_pc' = "delete"
  /\ UNCHANGED <<raised, ugoira_file, filenames, frames, idx, frames_in, handed,
                 enc_called, output, ret>>
  /\ UNCHANGED pipeVars
  /\ UgoFrame

\* if delete_ugoira: os.remove(ugoira_file), which can raise.
DeleteArchive ==
  /\ u_pc = "delete"
  /\ IF ShouldDelete(delete_ugoira)
     THEN \/ /\ ugoira_file' = "deleted"
             /\ u_pc' = IF backend = "webm" THEN "finally" ELSE "done"
             /\ UNCHANGED raised
          \/ /\ Raise("OSError")
             /\ UNCHANGED ugoira_file
     ELSE /\ u_pc' = IF backend = "webm" THEN "finally" ELSE "done"
          /\ UNCHANGED <<ugoira_file, raised>>
  /\ UNCHANGED <<temp, rm_count, filenames, frames, idx, frames_in, handed,
                 enc_called, temp_out, output, ret>>
  /\ UNCHANGED pipeVars
  /\ UgoFrame

\* The finally block of ugoira2webm: shutil.rmtree(d).
WebmFinally ==
  /\ u_pc = "finally"
  /\ temp' = "removed"
  /\ temp_out' = "none"
  /\ rm_count' = rm_count + 1
  /\ u_pc' = "done"
  /\ UNCHANGED <<raised, ugoira_file, filenames, frames, idx, frames_in, handed,
                 enc_called, output, ret>>
  /\ UNCHANGED pipeVars
  /\ UgoFrame

UgoNext ==
  \/ Mkdtemp \/ Extract \/ ReadManifest \/ NextFrame \/ Encode \/ WriteScript
  \/ RunEncoder \/ Move \/ Rmtree \/ DeleteArchive \/ WebmFinally

SpecUgoira == UgoInit /\ [][UgoNext]_vars

\* ugoira2webm from the start of the encoder on, the loop over its stderr
\* taken line by line: the archive is extracted and the script of its two
\* frames is written.
StderrInit ==
  /\ backend = "webm"
  /\ archive = [zip_ok |-> TRUE, manifest |-> "ok", members |-> FrameFiles,
                frames |-> << [file |-> "A", delay |-> 1], [file |-> "B", delay |-> 2] >>]
  /\ delete_ugoira \in BOOLEAN
  /\ output0 \in {"none", "old"}
  /\ output = output0
  /\ ugoira_file = "present"
  /\ u_pc = "popen"
  /\ temp = "exists" /\ rm_count = 0
  /\ filenames \in Listings(archive)
  /\ frames = archive.frames
  /\ frames_in = Ffconcat(frames, filenames)
  /\ idx = 1
  /\ handed = <<>> /\ enc_called = FALSE /\ temp_out = "none" /\ ret = -1
  /\ p_stderr = <<>> /\ unread = <<>> /\ chatter = <<>> /\ printed = <<>>
  /\ SizeIdle
  /\ platform = "Linux" /\ raised = "none"
  /\ fs = NoFiles /\ fs0 = NoFiles /\ dirs = {} /\ filename = <<>>
  /\ file_size = 0 /\ overwrite = FALSE
  /\ GateIdle /\ SanIdle /\ DlIdle

StderrNext ==
  Popen \/ ReadStderr \/ Wait \/ Move \/ DeleteArchive \/ WebmFinally

SpecStderr == StderrInit /\ [][StderrNext]_vars

\* The (file, delay in ms) pairs of what the encoder was given: the frames
\* of the gif and apng writers, and the file lines of the concat script that
\* a duration line follows.
Millis(p) == (p.num * MillisPerSecond) \div p.den

PairIndexes(given) ==
  IF backend = "webm"
  THEN {i \in 1..Len(given) : /\ given[i].kind = "file"
                              /\ i < Len(given)
                              /\ given[i + 1].kind = "duration"}
  ELSE 1..Len(given)

PairsGiven(given) ==
  LET I == PairIndexes(given)
      at(k) == CHOOSE i \in I : Cardinality({j \in I : j < i}) = k - 1
  IN  [k \in 1..Cardinality(I) |->
         [file |-> given[at(k)].file,
          delay |-> IF backend = "webm" THEN Millis(given[at(k) + 1])
                    ELSE Millis(given[at(k)])]]

\* C6: in every backend the (frame file, delay) pairs handed to the encoder
\* are exactly the frames list of the manifest, in manifest order, nothing
\* reordered, dropped or deduplicated, whatever order the directory listing
\* has.
C6_ManifestOrder == enc_called => PairsGiven(handed) = archive.frames

C6_Witness ==
  /\ enc_called
  /\ backend = "gif"
  /\ archive.frames = << [file |-> "B", delay |-> 2], [file |-> "A", delay |-> 1] >>
  /\ filenames[1] = "A"
  /\ Len(handed) = 2

\* C7: when the encoder of ugoira2webm exits with a non-zero code the
\* conversion fails with that code (EncodeProcessFailed), no file is created
\* or replaced at the output path, and the staging directory is removed.
C7_EncoderFailureReported ==
  (backend = "webm" /\ ret > 0) =>
    /\ output = output0
    /\ u_pc = "done" => (raised = "EncodeProcessFailed" /\ temp = "removed")

\* C8: in each backend the extraction directory is removed exactly once and
\* is gone when the call returns or raises, whichever step failed.
C8_TempRemovedOnce ==
  u_pc = "done" => (temp = "removed" /\ rm_count = 1)

BadFrame ==
  /\ archive.zip_ok
  /\ archive.manifest = "ok"
  /\ \E i \in 1..Len(archive.frames) : archive.frames[i].file \notin archive.members

\* C13: in ugoira2gif and ugoira2apng, when a frame of the list fails to
\* decode, whichever it is, the conversion ends with the decoder's exception,
\* the encoder is never called, the output path holds what it held before
\* the call and the archive is not deleted.
C13_FrameFailureAborts ==
  (backend \in {"gif", "apng"} /\ BadFrame) =>
    /\ ~enc_called
    /\ output = output0
    /\ ugoira_file = "present"
    /\ u_pc = "done" => raised = "DecodeError"

C13_Witness ==
  /\ u_pc = "done"
  /\ backend = "apng"
  /\ raised = "DecodeError"
  /\ Len(frames) = 2 /\ idx = 2 /\ Len(frames_in) = 1
  /\ output0 = "old" /\ output = "old"
  /\ delete_ugoira
  /\ ugoira_file = "present"

\* The lines of a concat script for the frames list fl: the header, then a
\* file line and a duration line (delay / 1000 seconds) for each frame in
\* order, then the file line of the last frame once more and nothing else.
IsConcatScript(script, fl) ==
  LET n == Len(fl)
  IN  /\ Len(script) >= 1
      /\ script[1].kind = "header"
      /\ n > 0 =>
           /\ Len(script) = 2 * n + 2
           /\ \A i \in 1..n :
                /\ script[2 * i].kind = "file"
                /\ script[2 * i].file = fl[i].file
                /\ script[2 * i + 1].kind = "duration"
                /\ script[2 * i + 1].num * MillisPerSecond
                     = fl[i].delay * script[2 * i + 1].den
           /\ script[2 * n + 2].kind = "file"
           /\ script[2 * n + 2].file = fl[n].file

\* ugoira2webm is past the statements that build and write the script.
PastScript ==
  u_pc \in {"popen", "stderr", "wait", "move", "delete", "finally", "done"}

\* C14: for every manifest whose frames list ugoira2webm has read, the
\* script it writes is the header, a file line and a duration line of
\* delay / 1000 for each frame in manifest order, and one more file line for
\* the last frame; it writes the script for every such manifest.
C14_ConcatScript ==
  (backend = "webm" /\ archive.zip_ok /\ archive.manifest = "ok" /\ PastScript) =>
    IsConcatScript(frames_in, archive.frames)

\* The lines of a stream that hold the marker, as they are reported.
ProgressLines(stream) ==
  LET marked == SelectSeq(stream, LAMBDA l : Find(l, Marker) >= 0)
  IN  [i \in 1..Len(marked) |-> Strip(marked[i], Whitespace)]

\* ugoira2webm has left the loop over the encoder's stderr.
PastStderr == enc_called /\ u_pc \in {"wait", "move", "delete", "finally", "done"}

\* C15: when ugoira2webm stops reading the encoder's stderr and waits for
\* its exit, the encoder has nothing left to write, and what was printed is
\* exactly the lines with the marker 'frame=' that the encoder wrote, in
\* order, with no line that lacks the marker.
C15_StderrForwarded ==
  (backend = "webm" /\ PastStderr) =>
    /\ unread = <<>>
    /\ printed = ProgressLines(p_stderr)

(***************************************************************************)
(* get_ugoira_size                                                         *)
(***************************************************************************)

\* The largest zipSize of a manifest and the largest size of a file on disk.
MaxZipSize == 4

MaxDiskSize == 4

\* The files get_ugoira_size is given: not a zip, a zip without
\* animation.json, one whose animation.json is not JSON, one whose JSON has
\* no zipSize, and one with a zipSize; st_size is os.path.getsize of it.
UgoFiles ==
  { [zip_ok |-> z, manifest |-> m, has_zipSize |-> h, zipSize |-> n, st_size |-> d] :
      z \in BOOLEAN, m \in {"missing", "malformed", "ok"}, h \in BOOLEAN,
      n \in 0..MaxZipSize, d \in 1..MaxDiskSize }

\* One description for each file: the fields that cannot be read are blank.
WellFormed(f) ==
  /\ ~f.zip_ok => f.manifest = "missing"
  /\ f.manifest # "ok" => ~f.has_zipSize
  /\ ~f.has_zipSize => f.zipSize = 0

SizeInit ==
  /\ ugoName \in {f \in UgoFiles : WellFormed(f)}
  /\ z_pc = "ZipFile"
  /\ z_size = 0
  /\ platform = "Linux"
  /\ GateIdle /\ SanIdle /\ DlIdle /\ FilesIdle /\ ConvIdle

\* What no step of get_ugoira_size changes.
SizeFrame ==
  UNCHANGED <<platform, fs, fs0, dirs, filename, file_size, overwrite, gateVars,
              sanVars, dlVars, ugoName, u_pc, backend, archive, ugoira_file,
              delete_ugoira, temp, rm_count, filenames, frames, idx, frames_in,
              handed, enc_called, temp_out, output, output0, ret, pipeVars>>

\* zipfile.ZipFile(ugoName): BadZipFile is raised on a file that is no zip,
\* and caught by the except clause.
ZipOpen ==
  /\ z_pc = "ZipFile"
  /\ z_pc' = IF ugoName.zip_ok THEN "read" ELSE "except"
  /\ UNCHANGED <<z_size, raised>>
  /\ SizeFrame

\* z.read("animation.json"): KeyError on a zip without that member; no
\* clause catches it.
ZipRead ==
  /\ z_pc = "read"
  /\ IF ugoName.manifest = "missing"
     THEN raised' = "KeyError" /\ z_pc' = "done"
     ELSE z_pc' = "loads" /\ UNCHANGED raised
  /\ UNCHANGED z_size
  /\ SizeFrame

\* size = json.loads(animJson)['zipSize']: JSONDecodeError on text that is
\* not JSON, KeyError on an object without the key; else the function
\* returns the value.
JsonLoads ==
  /\ z_pc = "loads"
  /\ IF ugoName.manifest = "malformed"
     THEN raised' = "JSONDecodeError" /\ UNCHANGED z_size
     ELSE IF ~ugoName.has_zipSize
     THEN raised' = "KeyError" /\ UNCHANGED z_size
     ELSE z_size' = ugoName.zipSize /\ UNCHANGED raised
  /\ z_pc' = "done"
  /\ SizeFrame

\* except zipfile.BadZipFile: size = os.path.getsize(ugoName), returned.
ExceptBadZip ==
  /\ z_pc = "except"
  /\ z_size' = ugoName.st_size
  /\ z_pc' = "done"
  /\ UNCHANGED raised
  /\ SizeFrame

SizeNext == ZipOpen \/ ZipRead \/ JsonLoads \/ ExceptBadZip

SpecSize == SizeInit /\ [][SizeNext]_vars

\* The manifest of the file can be read for its zipSize.
Readable(f) == f.zip_ok /\ f.manifest = "ok" /\ f.has_zipSize

\* C17: get_ugoira_size never raises for a file that is not a zip, lacks
\* animation.json, holds a manifest that is not JSON or a manifest without
\* zipSize: it returns the size of the file on disk for these, and the
\* zipSize of the manifest when that can be read.
C17_SizeOrFallback ==
  z_pc = "done" =>
    /\ raised = "none"
    /\ z_size = IF Readable(ugoName) THEN ugoName.zipSize ELSE ugoName.st_size

(***************************************************************************)
(* make_filename: the extension appended to the name                       *)
(***************************************************************************)

\* The longest locator given to make_filename.
MaxUrlLen == 5

UrlAlphabet == {"a", "b", ".", "?", "/"}

FileUrls == SeqsUpTo(UrlAlphabet, MaxUrlLen)

\* Formats with no token left in them, one with spaces to clean up.
NameFormats == { <<"a">>, <<" ", "a", " ", " ", "b", " ">> }

\* while nameFormat.find('  ') > -1: nameFormat = nameFormat.replace('  ', ' ')
\* leaves one space of every run of spaces.
CollapseSpaces(s) ==
  LET keep == {i \in 1..Len(s) : ~(s[i] = " " /\ i > 1 /\ s[i - 1] = " ")}
      at(k) == CHOOSE i \in keep : Cardinality({j \in keep : j < i}) = k - 1
  IN  [k \in 1..Cardinality(keep) |-> s[at(k)]]

\* The extension make_filename takes from fileUrl: when the basename has a
\* '.' past its first character, the second of its '.'-separated parts, up
\* to the first '?' in it.
ExtensionOf(plat, u) ==
  LET base == Basename(plat, u)
  IN  IF Find(base, ".") > 0
      THEN Split(Split(base, ".")[2], "?")[1]
      ELSE <<>>

MkInit ==
  /\ platform \in Platforms
  /\ fileUrl \in FileUrls
  /\ nameFormat \in NameFormats
  /\ appendExtension \in BOOLEAN
  /\ m_pc = "call"
  /\ imageExtension = <<>>
  /\ m_result = <<>>
  /\ NameIdle
  /\ GateIdle /\ FilesIdle /\ DlIdle /\ UgoIdle

\* make_filename(nameFormat, ..., fileUrl, appendExtension) for a format
\* without tokens: the extension is taken, double spaces are cleaned up, the
\* extension is appended when asked for, and the name is stripped.
MakeFilename ==
  /\ m_pc = "call"
  /\ imageExtension' = ExtensionOf(platform, fileUrl)
  /\ m_result' =
       LET cleaned == CollapseSpaces(nameFormat)
       IN  Strip(IF appendExtension
                 THEN Strip(cleaned, Whitespace) \o <<".">> \o imageExtension'
                 ELSE cleaned,
                 Whitespace)
  /\ m_pc' = "done"
  /\ UNCHANGED <<platform, nameFormat, fileUrl, appendExtension, s_pc, name,
                 rootDir, out1, out2, fileVars, gateVars, dlVars, ugoVars>>

MkNext == MakeFilename

SpecFilename == MkInit /\ [][MkNext]_vars

\* The last path segment of the locator.
LastSegment == Basename(platform, fileUrl)

\* C19: when the last segment of the locator holds a '.', the extension
\* make_filename appends is the text after the last '.' of the segment's
\* part before the '?', also when there is more than one '.'.
C19_ExtensionAfterLastDot ==
  (m_pc = "done" /\ appendExtension /\ Find(Before(LastSegment, "?"), ".") >= 0) =>
    LET path == Before(LastSegment, "?")
        ext == Slice(path, RFind(path, ".") + 1, Len(path))
    IN  /\ imageExtension = ext
        /\ m_result = Strip(CollapseSpaces(nameFormat), Whitespace) \o <<".">> \o ext

=============================================================================
